---- MODULE Spec2Model ----
(***************************************************************************)
(* Model of the streaming chat client (frontend/src): the ChatInterface    *)
(* component state, ChatApiService.sendMessage's read loop, and the        *)
(* localStorage persistence helpers.                                       *)
(*                                                                         *)
(* Text is modelled by TLA+ strings, bytes by integers 0..255, instants    *)
(* (Date) by milliseconds since the epoch.                                 *)
(***************************************************************************)
EXTENDS Integers, Sequences, FiniteSets, TLC

(***************************************************************************)
(* Bounds of the model.                                                    *)
(***************************************************************************)
MaxChunks == 2    \* chunks the transport delivers in a run
MaxMessages == 4  \* messages created in a run (two by each send)
MaxBytes == 3     \* bytes of a sequence that is cut into chunks
MaxPDFs == 1      \* uploads started in a session
MaxDeletes == 1   \* deletes under way at a time
MaxRequests == 2  \* question requests issued in a session

(***************************************************************************)
(* Inputs the environment and the user may supply.                         *)
(***************************************************************************)
InputTexts == {"", "  ", " hi "}
\* readings of the clock, in milliseconds
Instants == {0, 1}
ApiKeys == {"", "sk"}
\* 'a', ' ', and the two bytes 0xC3 0xA9 of U+00E9 split over two chunks
Chunks == {<<97>>, <<32>>, <<195>>, <<169>>}
Statuses == {200, 204, 500}
\* values a rejected fetch() or reader.read() may throw
Thrown == {[isError |-> TRUE, message |-> "network error"],
           [isError |-> FALSE, message |-> ""]}

(***************************************************************************)
(* Strings.                                                                *)
(***************************************************************************)
IsPrefix(p, s) == Len(p) <= Len(s) /\ SubSeq(s, 1, Len(p)) = p

IsWhite(c) == c \in {" ", "\t", "\n", "\r"}

RECURSIVE TrimStart(_)
TrimStart(s) ==
  IF s = "" THEN ""
  ELSE IF IsWhite(SubSeq(s, 1, 1)) THEN TrimStart(SubSeq(s, 2, Len(s)))
  ELSE s

RECURSIVE TrimEnd(_)
TrimEnd(s) ==
  IF s = "" THEN ""
  ELSE IF IsWhite(SubSeq(s, Len(s), Len(s))) THEN TrimEnd(SubSeq(s, 1, Len(s) - 1))
  ELSE s

\* String.prototype.trim
Trim(s) == TrimEnd(TrimStart(s))

(***************************************************************************)
(* TextDecoder (utf-8, fatal = false).  The decoder keeps the code point   *)
(* under construction between calls made with {stream: true}.              *)
(***************************************************************************)
ReplacementChar == "?"   \* stands for U+FFFD

\* the characters of the model's byte alphabet
CharOf(cp) ==
  IF cp = 97 THEN "a"
  ELSE IF cp = 32 THEN " "
  ELSE IF cp = 233 THEN "e"   \* stands for U+00E9
  ELSE ReplacementChar

NewDecoder == [cp |-> 0, needed |-> 0, seen |-> 0, lower |-> 128, upper |-> 191]

\* one byte through the decoder: the new decoder state, the text emitted,
\* and whether the byte has to be processed again
DecodeByte(d, b) ==
  IF d.needed = 0 THEN
    IF b <= 127 THEN [d |-> NewDecoder, out |-> CharOf(b), again |-> FALSE]
    ELSE IF b >= 194 /\ b <= 223 THEN
      [d |-> [NewDecoder EXCEPT !.needed = 1, !.cp = b % 32],
       out |-> "", again |-> FALSE]
    ELSE IF b >= 224 /\ b <= 239 THEN
      [d |-> [NewDecoder EXCEPT !.needed = 2, !.cp = b % 16,
                                !.lower = IF b = 224 THEN 160 ELSE 128,
                                !.upper = IF b = 237 THEN 159 ELSE 191],
       out |-> "", again |-> FALSE]
    ELSE IF b >= 240 /\ b <= 244 THEN
      [d |-> [NewDecoder EXCEPT !.needed = 3, !.cp = b % 8,
                                !.lower = IF b = 240 THEN 144 ELSE 128,
                                !.upper = IF b = 244 THEN 143 ELSE 191],
       out |-> "", again |-> FALSE]
    ELSE [d |-> NewDecoder, out |-> ReplacementChar, again |-> FALSE]
  ELSE IF b < d.lower \/ b > d.upper THEN
    [d |-> NewDecoder, out |-> ReplacementChar, again |-> TRUE]
  ELSE IF d.seen + 1 = d.needed THEN
    [d |-> NewDecoder, out |-> CharOf(d.cp * 64 + (b % 64)), again |-> FALSE]
  ELSE
    [d |-> [d EXCEPT !.cp = d.cp * 64 + (b % 64), !.seen = d.seen + 1,
                     !.lower = 128, !.upper = 191],
     out |-> "", again |-> FALSE]

\* decoder.decode(value, {stream: true})
RECURSIVE DecodeStream(_, _)
DecodeStream(d, bytes) ==
  IF bytes = <<>> THEN [d |-> d, out |-> ""]
  ELSE LET r == DecodeByte(d, Head(bytes))
           rest == DecodeStream(r.d, IF r.again THEN bytes ELSE Tail(bytes))
       IN [d |-> rest.d, out |-> r.out \o rest.out]

\* decode of a whole byte sequence in one call (end of input flushes)
DecodeAll(bytes) ==
  LET r == DecodeStream(NewDecoder, bytes)
  IN r.out \o (IF r.d.needed # 0 THEN ReplacementChar ELSE "")

\* variant: decode(value) without {stream: true}, which ends the input at
\* every call
decodeWithoutStream(d, value) ==
  LET r == DecodeStream(d, value)
  IN [d |-> NewDecoder,
      out |-> r.out \o (IF r.d.needed # 0 THEN ReplacementChar ELSE "")]

\* decoder.decode(value, { stream: true }) as the read loop calls it
decode(d, value) == DecodeStream(d, value)

(***************************************************************************)
(* Date <-> JSON.                                                          *)
(***************************************************************************)
Pad2(n) == IF n < 10 THEN "0" \o ToString(n) ELSE ToString(n)
Pad3(n) == IF n < 10 THEN "00" \o ToString(n)
           ELSE IF n < 100 THEN "0" \o ToString(n) ELSE ToString(n)

\* variant: the milliseconds are left out
toISOStringSeconds(t) == "1970-01-01T00:00:" \o Pad2(t \div 1000) \o "Z"

\* Date.prototype.toISOString, for instants in the first minute of the epoch
toISOString(t) ==
  "1970-01-01T00:00:" \o Pad2(t \div 1000) \o "." \o Pad3(t % 1000) \o "Z"

InvalidDate == -1

Digits == <<"0", "1", "2", "3", "4", "5", "6", "7", "8", "9">>
IsDigit(c) == \E d \in DOMAIN Digits : Digits[d] = c
DigitValue(c) == (CHOOSE d \in DOMAIN Digits : Digits[d] = c) - 1

\* new Date(string): the instant an ISO string of that minute denotes
DateFromString(s) ==
  IF /\ Len(s) = 24
     /\ SubSeq(s, 1, 17) = "1970-01-01T00:00:"
     /\ SubSeq(s, 20, 20) = "."
     /\ SubSeq(s, 24, 24) = "Z"
     /\ \A i \in {18, 19, 21, 22, 23} : IsDigit(SubSeq(s, i, i))
  THEN LET D(i) == DigitValue(SubSeq(s, i, i))
       IN (D(18) * 10 + D(19)) * 1000 + D(21) * 100 + D(22) * 10 + D(23)
  ELSE InvalidDate

\* JSON.stringify of the message array, kept as the JSON document's value
JSON_stringify(msgs) ==
  [i \in DOMAIN msgs |->
     [id |-> msgs[i].id, content |-> msgs[i].content, role |-> msgs[i].role,
      timestamp |-> toISOString(msgs[i].timestamp)]]

(***************************************************************************)
(* State.                                                                  *)
(***************************************************************************)
VARIABLES
  chatState,      \* [messages, isLoading, isTyping]
  inputMessage,   \* text of the input field
  apiKey,         \* API key held by the component
  showSettings,   \* settings panel open
  localStorage,   \* [key -> [present, value]]
  sends,          \* the invocations of handleSendMessage still observed
  now,            \* Date.now()
  idCount,        \* message ids generated so far
  chunkCount,     \* chunks delivered so far
  lastCall,       \* how the last call of handleSendMessage ended
                  \* (history variable)
  pdf,            \* uploadedPDFs, selectedPDFId and the PDF requests
  quiz,           \* generatedQuestions, isGeneratingQuestions and the request
  split           \* two read loops over one byte sequence

vars == <<chatState, inputMessage, apiKey, showSettings, localStorage, sends,
          now, idCount, chunkCount, lastCall, pdf, quiz, split>>

\* the state outside the chat exchange
sideVars == <<pdf, quiz, split>>

\* the state of the chat exchange
chatVars == <<chatState, inputMessage, apiKey, showSettings, localStorage, sends,
              now, idCount, chunkCount, lastCall>>

HistoryKey == "chat-history"
ApiKeyKey == "openai-api-key"

\* an absent item (getItem returns null): no history, no key
NoItem == [present |-> FALSE, value |-> <<>>]
NoKey == [present |-> FALSE, value |-> ""]
Item(v) == [present |-> TRUE, value |-> v]

Terminal == {"done", "error"}
InFlight(s) == s.pc \notin Terminal

(***************************************************************************)
(* lib/utils.ts                                                            *)
(***************************************************************************)
generateMessageId(t, n) == "msg_" \o ToString(t) \o "_" \o ToString(n)

getChatHistory(ls) ==
  IF ls[HistoryKey].present THEN ls[HistoryKey].value ELSE <<>>

saveChatHistory(msgs, ls) ==
  [ls EXCEPT ![HistoryKey] = Item(JSON_stringify(msgs))]

\* variant: the stored item is left in place
storage_clearChatHistoryKeeps(ls) == ls

storage_clearChatHistory(ls) == [ls EXCEPT ![HistoryKey] = NoItem]

(***************************************************************************)
(* ChatInterface effects.                                                  *)
(***************************************************************************)
\* variant: the effect writes nothing
SaveEffectSkips(msgs, ls) == ls

\* the save effect, run when chatState.messages is a new array
SaveEffect(msgs, ls) ==
  IF Len(msgs) > 0 THEN saveChatHistory(msgs, ls) ELSE ls

\* variant: the stored history is not read
LoadMessagesNone(ls) == <<>>

\* the load effect's messages: stored messages with timestamps coerced
LoadMessages(ls) ==
  LET saved == getChatHistory(ls)
  IN [i \in DOMAIN saved |->
        [id |-> saved[i].id, content |-> saved[i].content,
         role |-> saved[i].role,
         timestamp |-> DateFromString(saved[i].timestamp)]]

InitialChatState == [messages |-> <<>>, isLoading |-> FALSE, isTyping |-> FALSE]

\* a read loop of sendMessage with the chunks it is still to read
NewLoop(chunks) ==
  [todo |-> chunks, decoder |-> NewDecoder, assistantContent |-> "", reads |-> 0]

NoSplit == [bytes |-> <<>>, a |-> NewLoop(<<>>), b |-> NewLoop(<<>>)]

\* null
Null == "null"

\* uploadedPDFs, selectedPDFId and showPDFUpload of ChatInterface, isUploading
\* and uploadError of PDFUpload, the listPDFs request of the mount effect,
\* the deletePDF requests under way (each with the selectedPDFId its handler
\* closed over), and the ids the server holds
InitialPDFState ==
  [uploadedPDFs |-> <<>>, selectedPDFId |-> Null, showPDFUpload |-> FALSE,
   isUploading |-> FALSE, uploadError |-> Null,
   list |-> [pc |-> "pending", result |-> <<>>],
   uploads |-> {}, deletes |-> {}, server |-> <<>>, uploaded |-> 0]

\* generatedQuestions and isGeneratingQuestions of ChatInterface, the
\* selectedTopic of TopicSelector, the generateQuestions request under way,
\* the requests issued, and how the last call of handleGenerateQuestions
\* went
InitialQuizState ==
  [generatedQuestions |-> Null, isGeneratingQuestions |-> FALSE,
   selectedTopic |-> "", outstanding |-> 0, requests |-> 0,
   lastCall |-> "none"]

Init ==
  /\ chatState = InitialChatState
  /\ inputMessage = ""
  /\ apiKey = ""
  /\ showSettings = FALSE
  /\ localStorage = [k \in {HistoryKey, ApiKeyKey} |->
                       IF k = ApiKeyKey THEN NoKey ELSE NoItem]
  /\ sends = <<>>
  /\ now = 0
  /\ idCount = 0
  /\ chunkCount = 0
  /\ lastCall = "none"
  /\ pdf = InitialPDFState
  /\ quiz = InitialQuizState
  /\ split = NoSplit

(***************************************************************************)
(* State updates of handleSendMessage's callbacks.                         *)
(***************************************************************************)
\* variant: every message is given the content
SetContentOfAll(msgs, id, content) ==
  [i \in DOMAIN msgs |-> [msgs[i] EXCEPT !.content = content]]

\* variant: a message that is not in the sequence is put there
SetContentOrAppend(msgs, id, content) ==
  IF \E i \in DOMAIN msgs : msgs[i].id = id
  THEN [i \in DOMAIN msgs |->
          IF msgs[i].id = id THEN [msgs[i] EXCEPT !.content = content] ELSE msgs[i]]
  ELSE Append(msgs, [id |-> id, content |-> content, role |-> "assistant",
                     timestamp |-> 0])

\* prev.messages.map(msg => msg.id === id ? {...msg, content} : msg)
SetContent(msgs, id, content) ==
  [i \in DOMAIN msgs |->
     IF msgs[i].id = id THEN [msgs[i] EXCEPT !.content = content] ELSE msgs[i]]

\* variant: the message is given the chunk, not the accumulated content
onChunkReplaces(cs, s, chunk) ==
  [cs |-> [cs EXCEPT !.messages =
             SetContent(cs.messages, s.assistantMessageId, chunk)],
   s |-> [s EXCEPT !.assistantContent = s.assistantContent \o chunk,
                   !.onChunkCalls = s.onChunkCalls + 1]]

\* variant: the chunk is put in front of the accumulated content
onChunkPrepends(cs, s, chunk) ==
  [cs |-> [cs EXCEPT !.messages =
             SetContent(cs.messages, s.assistantMessageId, chunk \o s.assistantContent)],
   s |-> [s EXCEPT !.assistantContent = chunk \o s.assistantContent,
                   !.onChunkCalls = s.onChunkCalls + 1]]

\* variant: the content is written to the last message of the sequence
onChunkOfLastMessage(cs, s, chunk) ==
  [cs |-> [cs EXCEPT !.messages =
             IF cs.messages = <<>> THEN <<>>
             ELSE [cs.messages EXCEPT ![Len(cs.messages)].content =
                                        s.assistantContent \o chunk]],
   s |-> [s EXCEPT !.assistantContent = s.assistantContent \o chunk,
                   !.onChunkCalls = s.onChunkCalls + 1]]

\* onChunk: the closure's assistantContent grows, the message is rewritten
onChunk(cs, s, chunk) ==
  [cs |-> [cs EXCEPT !.messages =
             SetContent(cs.messages, s.assistantMessageId, s.assistantContent \o chunk)],
   s |-> [s EXCEPT !.assistantContent = s.assistantContent \o chunk,
                   !.onChunkCalls = s.onChunkCalls + 1]]

\* variant: isTyping is left as it is
onCompleteLoadingOnly(cs) == [cs EXCEPT !.isLoading = FALSE]

\* variant: completion leaves both flags as they are
onCompleteKeepsFlags(cs) == cs

onComplete(cs) == [cs EXCEPT !.isLoading = FALSE, !.isTyping = FALSE]

\* variant: the failed message is taken out of the sequence
onErrorDrops(cs, s, error) ==
  LET Others(msg) == msg.id # s.assistantMessageId
  IN [cs EXCEPT !.messages = SelectSeq(cs.messages, Others),
                !.isLoading = FALSE, !.isTyping = FALSE]

\* variant: the flags are left as they are
onErrorKeepsFlags(cs, s, error) ==
  [cs EXCEPT !.messages = SetContent(cs.messages, s.assistantMessageId,
                                     "Error: " \o error)]

\* variant: the message is stored without the "Error: " prefix
onErrorNoPrefix(cs, s, error) ==
  [cs EXCEPT !.messages = SetContent(cs.messages, s.assistantMessageId, error),
             !.isLoading = FALSE, !.isTyping = FALSE]

onError(cs, s, error) ==
  [cs EXCEPT !.messages = SetContent(cs.messages, s.assistantMessageId,
                                     "Error: " \o error),
             !.isLoading = FALSE, !.isTyping = FALSE]

\* variant: the thrown value's message is not used
ErrorTextAlwaysUnknown(thrown) == "An unknown error occurred"

\* error instanceof Error ? error.message : "An unknown error occurred"
ErrorText(thrown) ==
  IF thrown.isError THEN thrown.message ELSE "An unknown error occurred"

\* variant: the status is not looked at
ResponseOkAlways(status) == TRUE

\* response.ok
ResponseOk(status) == status >= 200 /\ status <= 299

\* response.body is null for a response without content
HasBody(status) == status # 204

(***************************************************************************)
(* User interface events.                                                  *)
(***************************************************************************)
\* variant: the controls are never disabled
SendControlsAlwaysEnabled == TRUE

\* the textarea (typing, Enter) and the send button are disabled while
\* chatState.isLoading
SendControlsEnabled == ~chatState.isLoading

setInputMessage(v) ==
  /\ SendControlsEnabled
  /\ v # inputMessage
  /\ inputMessage' = v
  /\ UNCHANGED <<chatState, apiKey, showSettings, localStorage, sends, now, idCount, chunkCount, lastCall>>
  /\ UNCHANGED sideVars

toggleSettings ==
  /\ showSettings' = ~showSettings
  /\ UNCHANGED <<chatState, inputMessage, apiKey, localStorage, sends, now, idCount, chunkCount, lastCall>>
  /\ UNCHANGED sideVars

\* variant: every change of the key field is written to storage
setApiKeyPersists(v) ==
  /\ showSettings
  /\ v # apiKey
  /\ apiKey' = v
  /\ localStorage' = [localStorage EXCEPT ![ApiKeyKey] = Item(v)]
  /\ UNCHANGED <<chatState, inputMessage, showSettings, sends, now, idCount, chunkCount, lastCall>>
  /\ UNCHANGED sideVars

\* the key field of the settings panel
setApiKey(v) ==
  /\ showSettings
  /\ v # apiKey
  /\ apiKey' = v
  /\ UNCHANGED <<chatState, inputMessage, showSettings, localStorage, sends, now, idCount, chunkCount, lastCall>>
  /\ UNCHANGED sideVars

saveApiKey ==
  /\ showSettings
  /\ localStorage' = [localStorage EXCEPT ![ApiKeyKey] = Item(apiKey)]
  /\ showSettings' = FALSE
  /\ UNCHANGED <<chatState, inputMessage, apiKey, sends, now, idCount, chunkCount, lastCall>>
  /\ UNCHANGED sideVars

clearChatHistory ==
  /\ chatState' = [chatState EXCEPT !.messages = <<>>]
  /\ localStorage' = SaveEffect(<<>>, storage_clearChatHistory(localStorage))
  /\ UNCHANGED <<inputMessage, apiKey, showSettings, sends, now, idCount, chunkCount, lastCall>>
  /\ UNCHANGED sideVars

(***************************************************************************)
(* handleSendMessage.                                                      *)
(***************************************************************************)
\* variant: the API key is not looked at
PreconditionFailsInputOnly == Trim(inputMessage) = ""

\* if (!inputMessage.trim() || !apiKey.trim())
PreconditionFails == Trim(inputMessage) = "" \/ Trim(apiKey) = ""

\* the closure of one call: its message id and content, the position of
\* sendMessage, and what that call has done so far (requests counts its
\* calls of fetch, onChunkCalls, onCompleteCalls and onErrorCalls the
\* calls of its callbacks)
NewSend(id) ==
  [assistantMessageId |-> id, assistantContent |-> "", pc |-> "fetch",
   decoder |-> NewDecoder, buffer |-> "", status |-> 0, error |-> "",
   received |-> <<>>, reads |-> 0, onChunkCalls |-> 0, last |-> "request",
   requests |-> 1, onCompleteCalls |-> 0, onErrorCalls |-> 0]

handleSendMessageRejected ==
  /\ SendControlsEnabled
  /\ PreconditionFails
  /\ showSettings' = IF Trim(apiKey) = "" THEN TRUE ELSE showSettings
  /\ lastCall' = "rejected"
  /\ UNCHANGED <<chatState, inputMessage, apiKey, localStorage, sends, now, idCount, chunkCount>>
  /\ UNCHANGED sideVars

\* variant: the placeholder is put before the user message
AppendMessagesAssistantFirst(msgs, userMessage, assistantMessage) ==
  Append(Append(msgs, assistantMessage), userMessage)

\* variant: the two messages take the place of the sequence
AppendMessagesReplaces(msgs, userMessage, assistantMessage) ==
  <<userMessage, assistantMessage>>

\* [...prev.messages, userMessage] and then [...prev.messages, assistantMessage]
AppendMessages(msgs, userMessage, assistantMessage) ==
  Append(Append(msgs, userMessage), assistantMessage)

\* the body of the handler once the preconditions hold; t is the clock
\* reading of its new Date() calls, which fall in the same millisecond
handleSendMessageAt(t) ==
  /\ LET userMessage == [id |-> generateMessageId(t, idCount + 1),
                         content |-> Trim(inputMessage), role |-> "user",
                         timestamp |-> t]
         assistantMessage == [id |-> generateMessageId(t, idCount + 2),
                              content |-> "", role |-> "assistant",
                              timestamp |-> t]
         msgs == AppendMessages(chatState.messages, userMessage, assistantMessage)
         live == SelectSeq(sends, InFlight)
     IN /\ chatState' = [messages |-> msgs, isLoading |-> TRUE, isTyping |-> TRUE]
        /\ localStorage' = SaveEffect(msgs, localStorage)
        /\ sends' = Append(live, NewSend(assistantMessage.id))
        /\ lastCall' = "accepted"
  /\ inputMessage' = ""
  /\ idCount' = idCount + 2
  /\ UNCHANGED <<apiKey, showSettings, chunkCount>>
  /\ UNCHANGED sideVars

handleSendMessageAccepted ==
  /\ SendControlsEnabled
  /\ ~PreconditionFails
  /\ idCount + 2 <= MaxMessages
  /\ \E t \in {i \in Instants : i >= now} :
     /\ now' = t
     /\ handleSendMessageAt(t)

(***************************************************************************)
(* ChatApiService.sendMessage, one step per await.  The send's field last  *)
(* records what the transport delivered to it.                             *)
(***************************************************************************)
\* the callbacks' result for send k applied to the component; replaced tells
\* whether chatState.messages is a new array, which runs the save effect
Apply(k, cs, s, kind, replaced) ==
  /\ chatState' = cs
  /\ localStorage' = IF replaced THEN SaveEffect(cs.messages, localStorage)
                     ELSE localStorage
  /\ sends' = [sends EXCEPT ![k] = [s EXCEPT !.last = kind]]
  /\ UNCHANGED <<inputMessage, apiKey, showSettings, now, idCount, lastCall>>
  /\ UNCHANGED sideVars

\* variant: the request is issued again instead of reporting the failure
CatchRetries(k, s, msg, kind) ==
  Apply(k, chatState, [s EXCEPT !.pc = "fetch", !.requests = s.requests + 1],
        kind, FALSE)

\* variant: the failure is swallowed, no callback is called
CatchSilently(k, s, msg, kind) ==
  Apply(k, chatState, [s EXCEPT !.pc = "error", !.error = msg], kind, FALSE)

\* the catch block: onError with the thrown value's message
Catch(k, s, msg, kind) ==
  Apply(k, onError(chatState, s, msg),
        [s EXCEPT !.pc = "error", !.error = msg,
                  !.onErrorCalls = s.onErrorCalls + 1],
        kind, TRUE)

\* variant: the buffer is handed to onChunk whatever it holds
FlushAlways(buffer) == TRUE

\* if (buffer.trim())
FlushNeeded(buffer) == Trim(buffer) # ""

\* fetch() resolves with a response
FetchResolves(k, status) ==
  /\ sends[k].pc = "fetch"
  /\ UNCHANGED chunkCount
  /\ LET s == [sends[k] EXCEPT !.status = status]
     IN IF ~ResponseOk(status)
        THEN Catch(k, s, "HTTP error! status: " \o ToString(status), "fetchResolved")
        ELSE IF ~HasBody(status)
        THEN Catch(k, s, "No response body reader available", "fetchResolved")
        ELSE Apply(k, chatState, [s EXCEPT !.pc = "read"], "fetchResolved", FALSE)

\* fetch() rejects
FetchRejects(k, thrown) ==
  /\ sends[k].pc = "fetch"
  /\ UNCHANGED chunkCount
  /\ Catch(k, sends[k], ErrorText(thrown), "fetchRejected")

\* reader.read() yields {done: false, value: bytes}
ReadChunk(k, bytes) ==
  /\ sends[k].pc = "read"
  /\ chunkCount < MaxChunks
  /\ chunkCount' = chunkCount + 1
  /\ LET r == decode(sends[k].decoder, bytes)
         s == [sends[k] EXCEPT !.decoder = r.d,
                               !.buffer = sends[k].buffer \o r.out,
                               !.received = sends[k].received \o bytes,
                               !.reads = sends[k].reads + 1]
         u == onChunk(chatState, s, r.out)
     IN Apply(k, u.cs, u.s, "readChunk", TRUE)

\* variant: the loop goes on reading after onComplete
AfterCompleteKeepsReading == "read"

\* onComplete(); break;
AfterComplete == "done"

\* reader.read() yields {done: true}
ReadDone(k) ==
  /\ sends[k].pc = "read"
  /\ UNCHANGED chunkCount
  /\ LET s == sends[k]
         flush == FlushNeeded(s.buffer)
         u == IF flush THEN onChunk(chatState, s, s.buffer)
              ELSE [cs |-> chatState, s |-> s]
     IN Apply(k, onComplete(u.cs),
              [u.s EXCEPT !.pc = AfterComplete,
                          !.onCompleteCalls = u.s.onCompleteCalls + 1],
              "readDone", flush)

\* reader.read() rejects
ReadRejects(k, thrown) ==
  /\ sends[k].pc = "read"
  /\ UNCHANGED chunkCount
  /\ Catch(k, sends[k], ErrorText(thrown), "readRejected")

(***************************************************************************)
(* Page reload: the component is constructed anew and its mount effects    *)
(* run; the previous page's requests are gone with it.                     *)
(***************************************************************************)
Reload ==
  /\ LET msgs == LoadMessages(localStorage)
     IN /\ chatState' = [InitialChatState EXCEPT !.messages = msgs]
        /\ localStorage' = SaveEffect(msgs, localStorage)
  /\ inputMessage' = ""
  /\ apiKey' = IF localStorage[ApiKeyKey].present /\ localStorage[ApiKeyKey].value # ""
               THEN localStorage[ApiKeyKey].value ELSE ""
  /\ showSettings' = FALSE
  /\ sends' = <<>>
  /\ lastCall' = "none"
  /\ UNCHANGED <<now, idCount, chunkCount>>
  /\ UNCHANGED sideVars

Next ==
  \/ \E v \in InputTexts : setInputMessage(v)
  \/ toggleSettings
  \/ \E v \in ApiKeys : setApiKey(v)
  \/ saveApiKey
  \/ clearChatHistory
  \/ handleSendMessageRejected
  \/ handleSendMessageAccepted
  \/ \E k \in DOMAIN sends, status \in Statuses : FetchResolves(k, status)
  \/ \E k \in DOMAIN sends, thrown \in Thrown : FetchRejects(k, thrown)
  \/ \E k \in DOMAIN sends, bytes \in Chunks : ReadChunk(k, bytes)
  \/ \E k \in DOMAIN sends : ReadDone(k)
  \/ \E k \in DOMAIN sends, thrown \in Thrown : ReadRejects(k, thrown)
  \/ Reload

Spec == Init /\ [][Next]_vars

(***************************************************************************)
(* handleSendMessage called by a caller that does not wait for the send    *)
(* under way: the handler itself looks at inputMessage and apiKey only     *)
(* (ChatInterface.tsx:90), the disabled attributes of the textarea and of  *)
(* the button are what keeps sends serial in Spec.  The session starts     *)
(* with a saved API key.                                                   *)
(***************************************************************************)
InitOverlap ==
  /\ chatState = InitialChatState
  /\ inputMessage = ""
  /\ apiKey = "sk"
  /\ showSettings = FALSE
  /\ localStorage = [k \in {HistoryKey, ApiKeyKey} |->
                       IF k = ApiKeyKey THEN Item("sk") ELSE NoItem]
  /\ sends = <<>>
  /\ now = 0
  /\ idCount = 0
  /\ chunkCount = 0
  /\ lastCall = "none"
  /\ pdf = InitialPDFState
  /\ quiz = InitialQuizState
  /\ split = NoSplit

\* onChange={(e) => setInputMessage(e.target.value)}
setInputMessageUngated(v) ==
  /\ v # inputMessage
  /\ inputMessage' = v
  /\ UNCHANGED <<chatState, apiKey, showSettings, localStorage, sends, now, idCount, chunkCount, lastCall>>
  /\ UNCHANGED sideVars

\* handleSendMessage past its precondition, whatever isLoading is
handleSendMessageUngated ==
  /\ ~PreconditionFails
  /\ idCount + 2 <= MaxMessages
  /\ \E t \in {i \in Instants : i >= now} :
     /\ now' = t
     /\ handleSendMessageAt(t)

NextOverlap ==
  \/ \E v \in InputTexts : setInputMessageUngated(v)
  \/ handleSendMessageUngated
  \/ \E k \in DOMAIN sends, status \in Statuses : FetchResolves(k, status)
  \/ \E k \in DOMAIN sends, thrown \in Thrown : FetchRejects(k, thrown)
  \/ \E k \in DOMAIN sends, bytes \in Chunks : ReadChunk(k, bytes)
  \/ \E k \in DOMAIN sends : ReadDone(k)
  \/ \E k \in DOMAIN sends, thrown \in Thrown : ReadRejects(k, thrown)

SpecOverlap == InitOverlap /\ [][NextOverlap]_vars

(***************************************************************************)
(* The PDF panel: ChatInterface's uploadedPDFs and selectedPDFId, the       *)
(* PDFUpload component (mounted while showPDFUpload) and the requests to    *)
(* the server's list of PDFs.  pdf.server is the server's list; pdf.list    *)
(* is the mount effect's list request; pdf.uploads and pdf.deletes are the  *)
(* uploads and deletes under way, a delete with the selectedPDFId its       *)
(* handlers closed over.                                                    *)
(***************************************************************************)
PdfId(n) == "pdf" \o ToString(n)

FileNames == {"a.pdf", "a.txt"}

\* file.name.toLowerCase().endsWith('.pdf')
IsPdfName(name) == Len(name) >= 4 /\ SubSeq(name, Len(name) - 3, Len(name)) = ".pdf"

ListedIds(list) == {list[i].pdf_id : i \in DOMAIN list}

InitPDF ==
  /\ chatState = InitialChatState
  /\ inputMessage = ""
  /\ apiKey \in ApiKeys
  /\ showSettings = FALSE
  /\ localStorage = [k \in {HistoryKey, ApiKeyKey} |->
                       IF k = ApiKeyKey /\ apiKey # "" THEN Item(apiKey)
                       ELSE IF k = ApiKeyKey THEN NoKey ELSE NoItem]
  /\ sends = <<>>
  /\ now = 0
  /\ idCount = 0
  /\ chunkCount = 0
  /\ lastCall = "none"
  /\ \E stored \in {<<>>, <<PdfId(0)>>} :
       pdf = [InitialPDFState EXCEPT !.server = stored]
  /\ quiz = InitialQuizState
  /\ split = NoSplit

PdfStep(new) ==
  /\ pdf' = new
  /\ UNCHANGED <<chatVars, quiz, split>>

\* onClick={() => setShowPDFUpload(!showPDFUpload)}: hiding the panel
\* unmounts PDFUpload and its state; its requests go on
togglePDFUpload ==
  /\ pdf' = [pdf EXCEPT
       !.showPDFUpload = ~pdf.showPDFUpload,
       !.isUploading = FALSE,
       !.uploadError = Null,
       !.uploads = {[u EXCEPT !.mounted = FALSE] : u \in pdf.uploads}]
  /\ UNCHANGED <<chatVars, quiz, split>>

\* the server answers the list request with the PDFs it holds
ListServed ==
  /\ pdf.list.pc = "pending"
  /\ PdfStep([pdf EXCEPT
       !.list = [pc |-> "served",
                 result |-> [i \in DOMAIN pdf.server |-> [pdf_id |-> pdf.server[i]]]]])

\* loadUploadedPDFs: setUploadedPDFs(pdfs)
ListApplied ==
  /\ pdf.list.pc = "served"
  /\ PdfStep([pdf EXCEPT
       !.uploadedPDFs = pdf.list.result,
       !.list.pc = "done"])

\* loadUploadedPDFs: listPDFs throws, the error is logged
ListFails ==
  /\ pdf.list.pc = "pending"
  /\ PdfStep([pdf EXCEPT
       !.list.pc = "done"])

\* handleFileSelect stopped by one of its two tests
handleFileSelectRejected(name) ==
  /\ pdf.showPDFUpload
  /\ Trim(apiKey) = "" \/ ~IsPdfName(name)
  /\ PdfStep([pdf EXCEPT
       !.uploadError = IF Trim(apiKey) = ""
                       THEN "Please set your OpenAI API key first"
                       ELSE "Please select a PDF file"])

\* handleFileSelect up to await uploadPDF (the drop area is not disabled
\* while an upload is under way)
handleFileSelectAccepted(name) ==
  /\ pdf.showPDFUpload
  /\ Trim(apiKey) # ""
  /\ IsPdfName(name)
  /\ pdf.uploaded < MaxPDFs
  /\ PdfStep([pdf EXCEPT
       !.isUploading = TRUE,
       !.uploadError = Null,
       !.uploads = pdf.uploads \cup {[n |-> pdf.uploaded + 1, mounted |-> TRUE]},
       !.uploaded = pdf.uploaded + 1])

\* uploadPDF resolves: handlePDFUploaded, then finally
UploadSucceeds(u) ==
  /\ u \in pdf.uploads
  /\ PdfStep([pdf EXCEPT
       !.server = Append(pdf.server, PdfId(u.n)),
       !.uploadedPDFs = Append(pdf.uploadedPDFs, [pdf_id |-> PdfId(u.n)]),
       !.selectedPDFId = PdfId(u.n),
       !.isUploading = IF u.mounted THEN FALSE ELSE pdf.isUploading,
       !.uploads = pdf.uploads \ {u}])

\* uploadPDF throws: catch, then finally
UploadFails(u) ==
  /\ u \in pdf.uploads
  /\ PdfStep([pdf EXCEPT
       !.uploadError = IF u.mounted THEN "Upload failed" ELSE pdf.uploadError,
       !.isUploading = IF u.mounted THEN FALSE ELSE pdf.isUploading,
       !.uploads = pdf.uploads \ {u}])

\* onClick={() => onPDFSelected(selectedPDFId === pdf.pdf_id ? null : pdf.pdf_id)}
onPDFSelected(id) ==
  /\ pdf.showPDFUpload
  /\ id \in ListedIds(pdf.uploadedPDFs)
  /\ PdfStep([pdf EXCEPT
       !.selectedPDFId = IF pdf.selectedPDFId = id THEN Null ELSE id])

\* handleDeletePDF up to await deletePDF
handleDeletePDF(id) ==
  /\ pdf.showPDFUpload
  /\ id \in ListedIds(pdf.uploadedPDFs)
  /\ Cardinality(pdf.deletes) < MaxDeletes
  /\ PdfStep([pdf EXCEPT
       !.deletes = pdf.deletes \cup {[pdfId |-> id, selectedPDFId |-> pdf.selectedPDFId]}])

\* deletePDF resolves: handlePDFDeleted(pdfId), then the selection test,
\* both on the selectedPDFId of the render the delete was started in
DeleteSucceeds(d) ==
  /\ d \in pdf.deletes
  /\ \E i \in DOMAIN pdf.server : pdf.server[i] = d.pdfId
  /\ LET Others(id) == id # d.pdfId
         OtherPDFs(item) == item.pdf_id # d.pdfId
     IN PdfStep([pdf EXCEPT
          !.server = SelectSeq(pdf.server, Others),
          !.uploadedPDFs = SelectSeq(pdf.uploadedPDFs, OtherPDFs),
          !.selectedPDFId = IF d.selectedPDFId = d.pdfId THEN Null
                            ELSE pdf.selectedPDFId,
          !.deletes = pdf.deletes \ {d}])

\* deletePDF throws: the error is logged
DeleteFails(d) ==
  /\ d \in pdf.deletes
  /\ PdfStep([pdf EXCEPT
       !.deletes = pdf.deletes \ {d}])

NextPDF ==
  \/ togglePDFUpload
  \/ ListServed
  \/ ListApplied
  \/ ListFails
  \/ \E name \in FileNames : handleFileSelectRejected(name)
  \/ \E name \in FileNames : handleFileSelectAccepted(name)
  \/ \E u \in pdf.uploads : UploadSucceeds(u)
  \/ \E u \in pdf.uploads : UploadFails(u)
  \/ \E id \in ListedIds(pdf.uploadedPDFs) : onPDFSelected(id)
  \/ \E id \in ListedIds(pdf.uploadedPDFs) : handleDeletePDF(id)
  \/ \E d \in pdf.deletes : DeleteSucceeds(d)
  \/ \E d \in pdf.deletes : DeleteFails(d)

SpecPDF == InitPDF /\ [][NextPDF]_vars

(***************************************************************************)
(* The question generator: TopicSelector's selectedTopic, ChatInterface's  *)
(* generatedQuestions and isGeneratingQuestions.  quiz.requests counts the *)
(* requests issued, quiz.outstanding those not yet answered, quiz.lastCall *)
(* is the last event of the generator.                                     *)
(***************************************************************************)
Topics == {"theft"}

InitQuiz ==
  /\ chatState = InitialChatState
  /\ inputMessage = ""
  /\ apiKey \in ApiKeys
  /\ showSettings = FALSE
  /\ localStorage = [k \in {HistoryKey, ApiKeyKey} |->
                       IF k = ApiKeyKey /\ apiKey # "" THEN Item(apiKey)
                       ELSE IF k = ApiKeyKey THEN NoKey ELSE NoItem]
  /\ sends = <<>>
  /\ now = 0
  /\ idCount = 0
  /\ chunkCount = 0
  /\ lastCall = "none"
  /\ pdf = InitialPDFState
  /\ quiz = InitialQuizState
  /\ split = NoSplit

QuizStep(new) ==
  /\ quiz' = new
  /\ UNCHANGED <<chatVars, pdf, split>>

\* TopicSelector.handleTopicSelect (the list is shown while no topic is
\* selected)
handleTopicSelect(topic) ==
  /\ quiz.selectedTopic = ""
  /\ QuizStep([quiz EXCEPT !.selectedTopic = topic])

\* the Change Topic button
changeTopic ==
  /\ quiz.selectedTopic # ""
  /\ QuizStep([quiz EXCEPT !.selectedTopic = ""])

\* if (!apiKey.trim())
ApiKeyMissing == Trim(apiKey) = ""

\* handleGenerateQuestions: alert and return, or the flag is set and the
\* request is issued
handleGenerateQuestions ==
  IF ApiKeyMissing
  THEN QuizStep([quiz EXCEPT !.lastCall = "rejected"])
  ELSE /\ quiz.requests < MaxRequests
       /\ QuizStep([quiz EXCEPT !.isGeneratingQuestions = TRUE,
                                !.requests = quiz.requests + 1,
                                !.outstanding = quiz.outstanding + 1,
                                !.lastCall = "issued"])

\* the Generate button of TopicSelector: shown for a selected topic,
\* disabled={isGenerating || questionTypes.length === 0}
generateClicked ==
  /\ quiz.selectedTopic # ""
  /\ ~quiz.isGeneratingQuestions
  /\ handleGenerateQuestions

\* handleRegenerateQuestions: the button of QuestionDisplay, shown with
\* generated questions, disabled={isRegenerating}
handleRegenerateQuestions ==
  /\ quiz.generatedQuestions # Null
  /\ ~quiz.isGeneratingQuestions
  /\ handleGenerateQuestions

\* generateQuestions resolves: setGeneratedQuestions(result), then finally
GenerateSucceeds ==
  /\ quiz.outstanding > 0
  /\ QuizStep([quiz EXCEPT !.generatedQuestions = "questions" \o ToString(quiz.requests),
                           !.isGeneratingQuestions = FALSE,
                           !.outstanding = quiz.outstanding - 1,
                           !.lastCall = "succeeded"])

\* variant: a failure takes the displayed questions away
GenerateFailsClears ==
  /\ quiz.outstanding > 0
  /\ QuizStep([quiz EXCEPT !.generatedQuestions = Null,
                           !.isGeneratingQuestions = FALSE,
                           !.outstanding = quiz.outstanding - 1,
                           !.lastCall = "failed"])

\* generateQuestions throws: catch (alert), then finally
GenerateFails ==
  /\ quiz.outstanding > 0
  /\ QuizStep([quiz EXCEPT !.isGeneratingQuestions = FALSE,
                           !.outstanding = quiz.outstanding - 1,
                           !.lastCall = "failed"])

NextQuiz ==
  \/ toggleSettings
  \/ \E v \in ApiKeys : setApiKey(v)
  \/ \E topic \in Topics : handleTopicSelect(topic)
  \/ changeTopic
  \/ generateClicked
  \/ handleRegenerateQuestions
  \/ GenerateSucceeds
  \/ GenerateFails

SpecQuiz == InitQuiz /\ [][NextQuiz]_vars

(***************************************************************************)
(* A session with a saved API key when the network answers: a request that *)
(* is under way is eventually settled and a read that is under way         *)
(* eventually returns.  The body is finite (chunkCount < MaxChunks in      *)
(* ReadChunk).  The settings panel, which no send looks at once it has     *)
(* begun, stays closed.                                                    *)
(***************************************************************************)
StreamStep ==
  \/ \E k \in DOMAIN sends, status \in Statuses : FetchResolves(k, status)
  \/ \E k \in DOMAIN sends, thrown \in Thrown : FetchRejects(k, thrown)
  \/ \E k \in DOMAIN sends, bytes \in Chunks : ReadChunk(k, bytes)
  \/ \E k \in DOMAIN sends : ReadDone(k)
  \/ \E k \in DOMAIN sends, thrown \in Thrown : ReadRejects(k, thrown)

NextLive ==
  \/ \E v \in InputTexts : setInputMessage(v)
  \/ clearChatHistory
  \/ handleSendMessageRejected
  \/ handleSendMessageAccepted
  \/ StreamStep
  \/ Reload

SpecLive == InitOverlap /\ [][NextLive]_vars /\ WF_vars(StreamStep)

(***************************************************************************)
(* The read loop of sendMessage on one byte sequence cut into chunks in    *)
(* two ways.                                                               *)
(***************************************************************************)
SplitBytes == {97, 195, 169}

ByteSeqs == UNION {[1..n -> SplitBytes] : n \in 1..MaxBytes}

\* the ways of cutting a byte sequence into non-empty chunks
RECURSIVE Splittings(_)
Splittings(bytes) ==
  IF bytes = <<>> THEN {<<>>}
  ELSE UNION {{<<SubSeq(bytes, 1, i)>> \o rest :
                 rest \in Splittings(SubSeq(bytes, i + 1, Len(bytes)))} :
              i \in 1..Len(bytes)}

InitSplit ==
  /\ chatState = InitialChatState
  /\ inputMessage = ""
  /\ apiKey = ""
  /\ showSettings = FALSE
  /\ localStorage = [k \in {HistoryKey, ApiKeyKey} |->
                       IF k = ApiKeyKey THEN NoKey ELSE NoItem]
  /\ sends = <<>>
  /\ now = 0
  /\ idCount = 0
  /\ chunkCount = 0
  /\ lastCall = "none"
  /\ pdf = InitialPDFState
  /\ quiz = InitialQuizState
  /\ \E bytes \in ByteSeqs :
       \E a, b \in Splittings(bytes) :
         split = [bytes |-> bytes, a |-> NewLoop(a), b |-> NewLoop(b)]

\* one turn of the loop: the chunk is decoded and onChunk appends its text
ReadLoopStep(l) ==
  LET r == decode(l.decoder, Head(l.todo))
  IN [todo |-> Tail(l.todo), decoder |-> r.d,
      assistantContent |-> l.assistantContent \o r.out, reads |-> l.reads + 1]

ReadSplitA ==
  /\ split.a.todo # <<>>
  /\ split' = [split EXCEPT !.a = ReadLoopStep(split.a)]
  /\ UNCHANGED <<chatVars, pdf, quiz>>

ReadSplitB ==
  /\ split.b.todo # <<>>
  /\ split' = [split EXCEPT !.b = ReadLoopStep(split.b)]
  /\ UNCHANGED <<chatVars, pdf, quiz>>

NextSplit ==
  \/ ReadSplitA
  \/ ReadSplitB

SpecSplit == InitSplit /\ [][NextSplit]_vars

(***************************************************************************)
(* Properties.                                                             *)
(***************************************************************************)
messages == chatState.messages

\* the contents, in msgs, of the messages with the given id
ContentsOf(msgs, id) == {msgs[i].content : i \in {j \in DOMAIN msgs : msgs[j].id = id}}

HistoryStored == localStorage[HistoryKey].present

\* C1: once a send has completed, the content of its assistant message is
\* the text of the bytes the transport delivered, decoded as one sequence.
C1_CompletedContentIsDecodedConcatenation ==
  \A k \in DOMAIN sends :
    sends[k].pc = "done" =>
      \A c \in ContentsOf(messages, sends[k].assistantMessageId) :
        c = DecodeAll(sends[k].received)

\* C2: a call of handleSendMessage with an input or an API key that is
\* empty after trimming appends no message, leaves isLoading and isTyping
\* as they were and issues no request.
C2_RejectedSendChangesNothing ==
  [][(/\ handleSendMessageRejected \/ handleSendMessageAccepted
      /\ (Trim(inputMessage) = "" \/ Trim(apiKey) = ""))
     => /\ chatState'.messages = chatState.messages
        /\ chatState'.isLoading = chatState.isLoading
        /\ chatState'.isTyping = chatState.isTyping
        /\ sends' = sends
        /\ localStorage' = localStorage]_vars

C2_Witness ==
  /\ lastCall = "rejected"
  /\ Trim(inputMessage) # ""
  /\ Trim(apiKey) = ""
  /\ messages = <<>>

\* C3: a response with a non-success status s ends the send in the error
\* state, the placeholder reading "Error: HTTP error! status: s", with
\* isLoading and isTyping false.
C3_HttpErrorEndsInErrorState ==
  [][\A k \in DOMAIN sends :
       (/\ k \in DOMAIN sends'
        /\ sends[k].pc = "fetch"
        /\ sends'[k].last = "fetchResolved"
        /\ sends'[k].assistantMessageId = sends[k].assistantMessageId
        /\ ~(sends'[k].status >= 200 /\ sends'[k].status <= 299))
       => /\ sends'[k].pc = "error"
          /\ \A c \in ContentsOf(chatState'.messages, sends[k].assistantMessageId) :
               c = "Error: HTTP error! status: " \o ToString(sends'[k].status)
          /\ chatState'.isLoading = FALSE
          /\ chatState'.isTyping = FALSE]_vars

C3_Witness ==
  \E k \in DOMAIN sends :
    /\ sends[k].last = "fetchResolved"
    /\ sends[k].status = 500
    /\ ContentsOf(messages, sends[k].assistantMessageId)
         = {"Error: HTTP error! status: 500"}
    /\ ~chatState.isLoading /\ ~chatState.isTyping

\* C4: a body exhausted on the first read leaves the assistant content
\* empty, calls onChunk not at all, and completes with both flags false.
C4_ZeroChunkStreamCompletesEmpty ==
  [][\A k \in DOMAIN sends :
       (/\ k \in DOMAIN sends'
        /\ sends[k].pc = "read"
        /\ sends[k].reads = 0
        /\ sends'[k].last = "readDone"
        /\ sends'[k].assistantMessageId = sends[k].assistantMessageId)
       => /\ sends'[k].pc = "done"
          /\ sends'[k].onChunkCalls = 0
          /\ \A c \in ContentsOf(chatState'.messages, sends[k].assistantMessageId) :
               c = ""
          /\ chatState'.isLoading = FALSE
          /\ chatState'.isTyping = FALSE]_vars

C4_Witness ==
  \E k \in DOMAIN sends :
    /\ sends[k].last = "readDone"
    /\ sends[k].pc = "done"
    /\ sends[k].reads = 0
    /\ ContentsOf(messages, sends[k].assistantMessageId) = {""}
    /\ ~chatState.isLoading /\ ~chatState.isTyping

\* C5: clearChatHistory leaves the message sequence empty and no stored
\* history, and both stay so until a new send starts: no later chunk,
\* terminal transition or reload brings a message back.
HistoryEmpty == messages = <<>> /\ ~HistoryStored

C5_ClearEmptiesHistory ==
  [][/\ clearChatHistory
          => (chatState'.messages = <<>> /\ ~localStorage'[HistoryKey].present)
     /\ (HistoryEmpty /\ idCount' = idCount)
          => (chatState'.messages = <<>> /\ ~localStorage'[HistoryKey].present)]_vars

\* the history was cleared while a send was in flight, and a chunk of that
\* send has arrived since
C5_Witness ==
  \E k \in DOMAIN sends :
    /\ sends[k].last = "readChunk"
    /\ sends[k].assistantContent # ""
    /\ ContentsOf(messages, sends[k].assistantMessageId) = {}
    /\ HistoryEmpty

C7_LoadingEqualsTyping == chatState.isLoading = chatState.isTyping

C7_Witness ==
  /\ chatState.isLoading
  /\ chatState.isTyping
  /\ \E k \in DOMAIN sends : sends[k].pc = "read"

\* C8: isLoading holds exactly while some send has been initiated and has
\* not reached its completed or error transition.
C8_LoadingIffSendInFlight ==
  chatState.isLoading <=> (\E k \in DOMAIN sends : sends[k].pc \in {"fetch", "read"})

C8_Witness ==
  /\ ~chatState.isLoading
  /\ \E k \in DOMAIN sends : sends[k].pc = "error" /\ sends[k].last = "readRejected"

\* C9: at most one send, hence one assistant message, is in flight.
C9_AtMostOneInFlight ==
  Cardinality({k \in DOMAIN sends : sends[k].pc \in {"fetch", "read"}}) <= 1

\* a second send is in flight after the first one ended
C9_Witness ==
  /\ idCount = 4
  /\ Len(messages) = 4
  /\ \E k \in DOMAIN sends : sends[k].pc = "read"

\* C10 as stated: whenever a message is kept by a step, its old content is
\* a prefix of its new content.
C10_ContentOnlyGrows ==
  [][\A i \in DOMAIN chatState.messages, j \in DOMAIN chatState'.messages :
       chatState.messages[i].id = chatState'.messages[j].id
       => IsPrefix(chatState.messages[i].content, chatState'.messages[j].content)]_vars

\* C10 amended: the old content is a prefix of the new content, except at
\* the error transition of the message's send, which sets "Error: " + m.
C10_ContentGrowsExceptOnError ==
  [][\A i \in DOMAIN chatState.messages, j \in DOMAIN chatState'.messages :
       chatState.messages[i].id = chatState'.messages[j].id
       => \/ IsPrefix(chatState.messages[i].content, chatState'.messages[j].content)
          \/ \E k \in DOMAIN sends :
               /\ k \in DOMAIN sends'
               /\ sends[k].assistantMessageId = chatState.messages[i].id
               /\ sends'[k].assistantMessageId = chatState.messages[i].id
               /\ sends[k].pc \in {"fetch", "read"}
               /\ sends'[k].pc = "error"
               /\ chatState'.messages[j].content = "Error: " \o sends'[k].error]_vars

\* the content has grown with each of two chunks
C10_Witness ==
  \E k \in DOMAIN sends :
    /\ sends[k].pc = "read"
    /\ sends[k].reads = 2
    /\ Len(sends[k].assistantContent) >= 2
    /\ ContentsOf(messages, sends[k].assistantMessageId) = {sends[k].assistantContent}

\* C11: while a send is reading its body, after k chunks, the content of
\* its assistant message is the text of the k chunks, decoded by the
\* streaming decoder and concatenated in the order of arrival, and onChunk
\* has republished the content once for each chunk.
C11_ChunksAppliedInArrivalOrder ==
  \A k \in DOMAIN sends :
    sends[k].pc = "read" =>
      /\ sends[k].onChunkCalls = sends[k].reads
      /\ \A c \in ContentsOf(messages, sends[k].assistantMessageId) :
           c = DecodeStream(NewDecoder, sends[k].received).out

\* 'a' and then ' ' have arrived and the stream is not yet exhausted
C11_Witness ==
  \E k \in DOMAIN sends :
    /\ sends[k].pc = "read"
    /\ sends[k].received = <<97, 32>>
    /\ sends[k].reads = 2
    /\ ContentsOf(messages, sends[k].assistantMessageId) = {"a "}

\* C12: when fetch() or a read of the body fails, after any number of
\* chunks, the content of the send's assistant message becomes "Error: "
\* followed by the failure's message (for a thrown Error, its message) and
\* isLoading and isTyping are false after the same step.
C12_FailureRewritesContent ==
  [][/\ \A k \in DOMAIN sends, thrown \in Thrown :
          (/\ FetchRejects(k, thrown) \/ ReadRejects(k, thrown)
           /\ thrown.isError)
          => /\ sends'[k].pc = "error"
             /\ sends'[k].error = thrown.message
     /\ \A k \in DOMAIN sends :
          (/\ k \in DOMAIN sends'
           /\ sends[k].pc \in {"fetch", "read"}
           /\ sends'[k].pc = "error"
           /\ sends'[k].assistantMessageId = sends[k].assistantMessageId)
          => /\ \A c \in ContentsOf(chatState'.messages, sends[k].assistantMessageId) :
                  c = "Error: " \o sends'[k].error
             /\ chatState'.isLoading = FALSE
             /\ chatState'.isTyping = FALSE]_vars

\* a read failed after a chunk had been applied
C12_Witness ==
  \E k \in DOMAIN sends :
    /\ sends[k].last = "readRejected"
    /\ sends[k].reads = 1
    /\ sends[k].assistantContent = "a"
    /\ ContentsOf(messages, sends[k].assistantMessageId) = {"Error: network error"}
    /\ ~chatState.isLoading /\ ~chatState.isTyping

\* the message with the given id is in msgs with an "Error: " content
ErrorShown(msgs, id) ==
  \E i \in DOMAIN msgs : msgs[i].id = id /\ IsPrefix("Error: ", msgs[i].content)

\* C13 as stated: whenever a send has ended in the error state, its
\* assistant message is in the message sequence and in the stored history,
\* under its id, with a content that starts with "Error: ".
C13_ErrorMessageRemains ==
  \A k \in DOMAIN sends :
    sends[k].pc = "error" =>
      /\ ErrorShown(messages, sends[k].assistantMessageId)
      /\ ErrorShown(getChatHistory(localStorage), sends[k].assistantMessageId)

\* C13 amended: the error transition keeps the assistant message the
\* sequence holds at its place and id, with an "Error: " content, in memory
\* and in the stored history; after it every step but clearChatHistory
\* keeps that message as it is.  (A clear, before or after the failure,
\* removes the message.)
C13_ErrorMessageRemainsUnlessCleared ==
  [][\A k \in DOMAIN sends, i \in DOMAIN chatState.messages :
       (/\ chatState.messages[i].id = sends[k].assistantMessageId
        /\ k \in DOMAIN sends'
        /\ sends'[k].assistantMessageId = sends[k].assistantMessageId
        /\ sends'[k].pc = "error")
       => \/ clearChatHistory
          \/ /\ i \in DOMAIN chatState'.messages
             /\ chatState'.messages[i].id = chatState.messages[i].id
             /\ IsPrefix("Error: ", chatState'.messages[i].content)
             /\ sends[k].pc = "error"
                  => chatState'.messages[i] = chatState.messages[i]
             /\ localStorage'[HistoryKey].present
             /\ i \in DOMAIN getChatHistory(localStorage')
             /\ getChatHistory(localStorage')[i].id = chatState.messages[i].id
             /\ getChatHistory(localStorage')[i].content
                  = chatState'.messages[i].content]_vars

\* a failed send's message is shown and stored, and the user has typed since
C13_Witness ==
  \E k \in DOMAIN sends :
    /\ sends[k].pc = "error"
    /\ sends[k].reads = 1
    /\ ErrorShown(messages, sends[k].assistantMessageId)
    /\ ErrorShown(getChatHistory(localStorage), sends[k].assistantMessageId)
    /\ inputMessage # ""

\* C14: once onComplete or onError has run for a send, the send takes no
\* further step: it calls no callback again, and the content of its
\* assistant message is not changed by it.
C14_NoMutationAfterTerminal ==
  [][\A k \in DOMAIN sends :
       (/\ sends[k].pc = "error" \/ sends[k].last = "readDone"
        /\ k \in DOMAIN sends'
        /\ sends'[k].assistantMessageId = sends[k].assistantMessageId)
       => /\ sends'[k] = sends[k]
          /\ ContentsOf(chatState'.messages, sends[k].assistantMessageId)
               \subseteq ContentsOf(chatState.messages, sends[k].assistantMessageId)]_vars

\* a send has completed after one chunk, the transport could deliver
\* another, and the user has typed since
C14_Witness ==
  \E k \in DOMAIN sends :
    /\ sends[k].pc = "done"
    /\ sends[k].reads = 1
    /\ chunkCount < MaxChunks
    /\ ContentsOf(messages, sends[k].assistantMessageId) # {}
    /\ inputMessage # ""

\* C15: every send has issued exactly one request, and a request is issued
\* only by a call of handleSendMessage that passes its preconditions: no
\* step of a send, failed or not, issues another.
C15_NoRetries ==
  [][\A k \in DOMAIN sends' :
       /\ sends'[k].requests = 1
       /\ \/ \E j \in DOMAIN sends :
               /\ sends[j].assistantMessageId = sends'[k].assistantMessageId
               /\ sends[j].requests = sends'[k].requests
          \/ /\ handleSendMessageAccepted
             /\ k = Len(sends')
             /\ sends'[k].pc = "fetch"]_vars

\* a request has failed and the user has typed since; no request is out
C15_Witness ==
  /\ \E k \in DOMAIN sends :
       /\ sends[k].last = "fetchRejected"
       /\ sends[k].requests = 1
  /\ \A k \in DOMAIN sends : sends[k].pc # "fetch"
  /\ inputMessage # ""

C17_SendAppendsUserThenPlaceholder ==
  [][handleSendMessageAccepted =>
       LET old == chatState.messages
           new == chatState'.messages
           n == Len(old)
       IN /\ Len(new) = n + 2
          /\ SubSeq(new, 1, n) = old
          /\ new[n + 1].role = "user"
          /\ new[n + 1].content = Trim(inputMessage)
          /\ new[n + 2].role = "assistant"
          /\ new[n + 2].content = ""
          /\ sends' # <<>>
          /\ LET s == sends'[Len(sends')]
             IN /\ s.assistantMessageId = new[n + 2].id
                /\ s.pc = "fetch"
                /\ s.last = "request"
                /\ s.reads = 0]_vars

\* the input " hi " has been sent and the request is out
C17_Witness ==
  /\ lastCall = "accepted"
  /\ Len(messages) = 2
  /\ messages[1].role = "user" /\ messages[1].content = "hi"
  /\ messages[2].role = "assistant" /\ messages[2].content = ""
  /\ \E k \in DOMAIN sends : sends[k].pc = "fetch" /\ sends[k].last = "request"

\* C18: a step of a send (a chunk, the end of the stream, a failure) leaves
\* the length and order of the sequence, every message with another id,
\* and the id, role and timestamp of the send's own message as they were.
C18_UpdatesChangeOnlyContent ==
  [][\A k \in DOMAIN sends :
       (/\ k \in DOMAIN sends'
        /\ sends'[k].assistantMessageId = sends[k].assistantMessageId
        /\ sends'[k] # sends[k])
       => /\ Len(chatState'.messages) = Len(chatState.messages)
          /\ \A i \in DOMAIN chatState.messages :
               /\ chatState'.messages[i].id = chatState.messages[i].id
               /\ chatState'.messages[i].role = chatState.messages[i].role
               /\ chatState'.messages[i].timestamp = chatState.messages[i].timestamp
               /\ chatState.messages[i].id # sends[k].assistantMessageId
                    => chatState'.messages[i] = chatState.messages[i]]_vars

\* a second send has received a chunk while the messages of the first
\* keep their contents
C18_Witness ==
  /\ Len(messages) = 4
  /\ messages[1].content = "hi"
  /\ messages[2].content = "aa"
  /\ messages[3].content = "hi"
  /\ messages[4].content = " "
  /\ \E k \in DOMAIN sends :
       /\ sends[k].assistantMessageId = messages[4].id
       /\ sends[k].last = "readChunk"

\* the ids of a message sequence, in its order
Ids(msgs) == [i \in DOMAIN msgs |-> msgs[i].id]

\* C19: every step other than clearChatHistory keeps the ids of the
\* sequence as a prefix of the new ids; clearChatHistory leaves the
\* sequence empty, and no other step makes the sequence shorter.
C19_AppendOnlyExceptClear ==
  [][/\ clearChatHistory => chatState'.messages = <<>>
     /\ ~clearChatHistory
          => IsPrefix(Ids(chatState.messages), Ids(chatState'.messages))
     /\ Len(chatState'.messages) < Len(chatState.messages)
          => clearChatHistory /\ chatState'.messages = <<>>]_vars

\* a second send has been appended after a completed exchange
C19_Witness ==
  /\ Len(messages) = 4
  /\ lastCall = "accepted"
  /\ messages[2].content # ""
  /\ messages[4].content = ""
  /\ \E k \in DOMAIN sends :
       sends[k].assistantMessageId = messages[4].id /\ sends[k].pc = "fetch"

\* C20: a send whose response had a status outside 200..299 is in the
\* error state without having read from the body, received a byte or
\* called onChunk.
C20_HttpErrorSkipsBody ==
  \A k \in DOMAIN sends :
    (/\ sends[k].status \in Statuses
     /\ sends[k].status < 200 \/ sends[k].status > 299)
    => /\ sends[k].pc = "error"
       /\ sends[k].last = "fetchResolved"
       /\ sends[k].reads = 0
       /\ sends[k].received = <<>>
       /\ sends[k].onChunkCalls = 0
       /\ sends[k].assistantContent = ""

\* the second send got status 500 while the transport still had chunks
C20_Witness ==
  /\ Len(messages) = 4
  /\ chunkCount < MaxChunks
  /\ \E k \in DOMAIN sends :
       /\ sends[k].assistantMessageId = messages[4].id
       /\ sends[k].status = 500
       /\ sends[k].pc = "error"
       /\ sends[k].onChunkCalls = 0

\* C21: a send that completed while its decoder held the first bytes of a
\* character has had them flushed: its content ends with what the decoder
\* gives for an unfinished character at the end of input (U+FFFD), and
\* the decoder holds nothing.
C21_PendingBytesFlushedAtExhaustion ==
  \A k \in DOMAIN sends :
    (/\ sends[k].pc = "done"
     /\ DecodeStream(NewDecoder, sends[k].received).d.needed # 0)
    => /\ sends[k].decoder.needed = 0
       /\ \A c \in ContentsOf(messages, sends[k].assistantMessageId) :
            /\ c # ""
            /\ SubSeq(c, Len(c), Len(c)) = ReplacementChar

\* C22: when two read loops have read the same bytes, cut into chunks in
\* two ways, their accumulated texts are the same; a two-byte character
\* cut between its bytes comes out once and whole.
C22_ChunkingInvariance ==
  (split.a.todo = <<>> /\ split.b.todo = <<>>) =>
    /\ split.a.assistantContent = split.b.assistantContent
    /\ split.bytes = <<195, 169>> => split.a.assistantContent = "e"
    /\ split.bytes = <<97, 195, 169>> => split.a.assistantContent = "ae"
    /\ split.bytes = <<195, 169, 97>> => split.a.assistantContent = "ea"

\* 'a' and U+00E9 read as one chunk by one loop and byte by byte by the other
C22_Witness ==
  /\ split.bytes = <<97, 195, 169>>
  /\ split.a.todo = <<>> /\ split.a.reads = 1
  /\ split.b.todo = <<>> /\ split.b.reads = 3
  /\ split.b.assistantContent = "ae"

\* C23: the stored API key changes only in a step of saveApiKey (the
\* settings panel closes; key, messages, input and sends stay), which
\* stores the key held in memory; a reload with a stored key starts with
\* that key in memory.
C23_ApiKeyStoredOnlyBySave ==
  [][/\ (\/ localStorage'[ApiKeyKey].present # localStorage[ApiKeyKey].present
         \/ /\ localStorage[ApiKeyKey].present
            /\ localStorage'[ApiKeyKey].value # localStorage[ApiKeyKey].value)
          => /\ showSettings /\ ~showSettings'
             /\ UNCHANGED <<chatState, inputMessage, apiKey, sends, idCount>>
             /\ localStorage'[HistoryKey] = localStorage[HistoryKey]
             /\ localStorage'[ApiKeyKey].present
             /\ localStorage'[ApiKeyKey].value = apiKey
     /\ ~(/\ localStorage[ApiKeyKey].present
          /\ localStorage'[ApiKeyKey].present
          /\ localStorage'[ApiKeyKey].value = localStorage[ApiKeyKey].value
          /\ apiKey' # localStorage[ApiKeyKey].value
          /\ sends' = <<>>
          /\ inputMessage' = ""
          /\ lastCall' = "none"
          /\ ~showSettings'
          /\ Reload)]_vars

\* the key was saved and the key field has been emptied since
C23_Witness ==
  /\ localStorage[ApiKeyKey] = Item("sk")
  /\ apiKey = ""
  /\ showSettings
  /\ Len(messages) = 2

\* C25: a call of sendMessage that is under way has called neither
\* onComplete nor onError; one that has returned has called exactly one of
\* them, once (onComplete after the end of the body, onError after a
\* failure); once one of them is called, no callback is called again.
C25_ExactlyOneTerminalCallback ==
  [][\A k \in DOMAIN sends' :
       LET s == sends'[k]
       IN /\ s.pc \in {"fetch", "read"}
               => s.onCompleteCalls = 0 /\ s.onErrorCalls = 0
          /\ s.pc = "done" => s.onCompleteCalls = 1 /\ s.onErrorCalls = 0
          /\ s.pc = "error" => s.onCompleteCalls = 0 /\ s.onErrorCalls = 1
          /\ s.pc \in {"fetch", "read", "done", "error"}
          /\ (/\ k \in DOMAIN sends
              /\ sends[k].assistantMessageId = s.assistantMessageId
              /\ sends[k].onCompleteCalls + sends[k].onErrorCalls > 0)
              => /\ s.onChunkCalls = sends[k].onChunkCalls
                 /\ s.onCompleteCalls = sends[k].onCompleteCalls
                 /\ s.onErrorCalls = sends[k].onErrorCalls]_vars

\* one call has ended with onError after a chunk, the next with onComplete
C25_Witness ==
  /\ Len(messages) = 4
  /\ IsPrefix("Error: ", messages[2].content)
  /\ \E k \in DOMAIN sends :
       /\ sends[k].assistantMessageId = messages[4].id
       /\ sends[k].pc = "done"
       /\ sends[k].onCompleteCalls = 1
       /\ sends[k].onErrorCalls = 0
       /\ sends[k].onChunkCalls > 0

\* C24: when the request and every read eventually return and the body is
\* finite, a send that has set isLoading is followed by a state where
\* isLoading is false; and nothing but the end of a send (its onComplete or
\* onError) or the construction of a new page sets isLoading to false: no
\* timer and no cancellation does.
C24_SendEventuallyTerminates ==
  /\ chatState.isLoading ~> ~chatState.isLoading
  /\ [][(chatState.isLoading /\ ~chatState'.isLoading)
          => \/ \E k \in DOMAIN sends :
                  /\ k \in DOMAIN sends'
                  /\ sends[k].pc \in {"fetch", "read"}
                  /\ sends'[k].pc \in {"done", "error"}
                  /\ sends'[k].onCompleteCalls + sends'[k].onErrorCalls = 1
             \/ sends' = <<>> /\ sends # <<>>]_vars

\* a send has read the whole bounded body and completed
C24_Witness ==
  /\ Len(messages) = 2
  /\ ~chatState.isLoading
  /\ ~chatState.isTyping
  /\ \E k \in DOMAIN sends :
       /\ sends[k].pc = "done"
       /\ sends[k].reads = 2
       /\ sends[k].last = "readDone"

\* C26: when the history was cleared while a send was under way, the
\* message sequence and the stored history are empty and stay empty at every
\* chunk, completion and failure of that send, until a new send is accepted;
\* the step that ends the send still sets isLoading and isTyping to false.
C26_ClearedSendWritesNothing ==
  [][\A k \in DOMAIN sends :
       ContentsOf(messages, sends[k].assistantMessageId) = {}
       => /\ HistoryEmpty
          /\ idCount' = idCount
               => /\ chatState'.messages = <<>>
                  /\ ~localStorage'[HistoryKey].present
          /\ (/\ k \in DOMAIN sends'
              /\ InFlight(sends[k])
              /\ ~InFlight(sends'[k]))
               => ~chatState'.isLoading /\ ~chatState'.isTyping]_vars

\* the history was cleared after the first chunk; the send has since
\* received another chunk and completed
C26_Witness ==
  \E k \in DOMAIN sends :
    /\ sends[k].pc = "done"
    /\ sends[k].reads = 2
    /\ sends[k].assistantContent # ""
    /\ ContentsOf(messages, sends[k].assistantMessageId) = {}
    /\ HistoryEmpty
    /\ ~chatState.isLoading
    /\ ~chatState.isTyping

\* C28 as claimed: a reload while a send is under way gives a sequence that
\* holds the send's user message followed by its assistant message with the
\* content accumulated so far, and both flags false.
C28_ReloadRestoresPartialConversation ==
  [][\A k \in DOMAIN sends :
       (InFlight(sends[k]) /\ sends' = <<>>)
       => /\ ~chatState'.isLoading
          /\ ~chatState'.isTyping
          /\ \E i \in 1..(Len(chatState'.messages) - 1) :
               /\ chatState'.messages[i].role = "user"
               /\ chatState'.messages[i + 1].id = sends[k].assistantMessageId
               /\ chatState'.messages[i + 1].role = "assistant"
               /\ chatState'.messages[i + 1].content = sends[k].assistantContent]_vars

\* C28 as amended: a reload while a send is under way gives the sequence as
\* it was after the last applied chunk, with both flags false and no send of
\* the old page left to alter it: the send's user message followed by its
\* assistant message with the content accumulated so far, unless the history
\* was cleared during the send, and then the empty sequence.
C28_ReloadRestoresUnlessCleared ==
  [][\A k \in DOMAIN sends :
       (InFlight(sends[k]) /\ sends' = <<>>)
       => /\ ~chatState'.isLoading
          /\ ~chatState'.isTyping
          /\ chatState'.messages = chatState.messages
          /\ IF ContentsOf(messages, sends[k].assistantMessageId) = {}
             THEN chatState'.messages = <<>>
             ELSE \E i \in 1..(Len(chatState'.messages) - 1) :
                    /\ chatState'.messages[i].role = "user"
                    /\ chatState'.messages[i + 1].id = sends[k].assistantMessageId
                    /\ chatState'.messages[i + 1].role = "assistant"
                    /\ chatState'.messages[i + 1].content = sends[k].assistantContent]_vars

\* the page was loaded anew after the only chunk, "a", of a send that had
\* neither completed (the content would be "aa") nor failed
C28_Witness ==
  /\ sends = <<>>
  /\ chunkCount = 1
  /\ Len(messages) = 2
  /\ messages[1].role = "user"
  /\ messages[2].role = "assistant"
  /\ messages[2].content = "a"
  /\ ~chatState.isLoading
  /\ ~chatState.isTyping

\* C27: when sends overlap, the assistant message of each send holds what
\* that send's own response gave, in its order: the decoded text of its own
\* chunks (given once more by the flush at completion, see C1) or "Error: "
\* and its own error; and the step that ends one send sets isLoading and
\* isTyping to false although another send is still under way.
C27_OverlappingSendsDoNotMix ==
  [][/\ \A k \in DOMAIN sends' :
          LET s == sends'[k]
              own == DecodeStream(NewDecoder, s.received).out
          IN /\ s.assistantContent \in {own, own \o own}
             /\ InFlight(s) => s.assistantContent = own
             /\ ContentsOf(chatState'.messages, s.assistantMessageId)
                  = {IF s.pc = "error" THEN "Error: " \o s.error
                     ELSE s.assistantContent}
     /\ \A k \in DOMAIN sends, j \in DOMAIN sends' :
          (/\ sends'[j].assistantMessageId = sends[k].assistantMessageId
           /\ InFlight(sends[k])
           /\ ~InFlight(sends'[j]))
          => ~chatState'.isLoading /\ ~chatState'.isTyping]_vars

\* two sends overlapped; each has received one chunk, the second has
\* completed and the first is still reading with isLoading false
C27_Witness ==
  /\ Len(sends) = 2
  /\ Len(messages) = 4
  /\ sends[1].pc = "read"
  /\ sends[1].received = <<97>>
  /\ messages[2].content = "a"
  /\ sends[2].pc = "done"
  /\ sends[2].received = <<32>>
  /\ messages[4].content = " "
  /\ ~chatState.isLoading
  /\ ~chatState.isTyping

\* C29: selectedPDFId is null or the id of an entry of uploadedPDFs; a
\* delete that succeeds for the selected PDF sets the selection to null; a
\* delete that fails leaves the list and the selection as they were.
C29_SelectionIsListed ==
  [][/\ pdf'.selectedPDFId \in ListedIds(pdf'.uploadedPDFs) \cup {Null}
     /\ \A d \in pdf.deletes \ pdf'.deletes :
          /\ (pdf'.server # pdf.server /\ d.pdfId = pdf.selectedPDFId)
               => pdf'.selectedPDFId = Null
          /\ pdf'.server = pdf.server
               => /\ pdf'.uploadedPDFs = pdf.uploadedPDFs
                  /\ pdf'.selectedPDFId = pdf.selectedPDFId]_vars

\* C30: while the trimmed API key is empty no step issues a request or sets
\* isGeneratingQuestions; a step issues at most one request, and one that
\* does sets the flag; the flag is true exactly while a request is
\* outstanding and becomes false when the request succeeds or fails; a
\* failure leaves generatedQuestions as they were.
C30_QuestionGeneration ==
  [][/\ Trim(apiKey) = ""
          => /\ quiz'.requests = quiz.requests
             /\ ~quiz.isGeneratingQuestions => ~quiz'.isGeneratingQuestions
     /\ quiz'.requests \in {quiz.requests, quiz.requests + 1}
     /\ quiz'.requests = quiz.requests + 1
          => /\ Trim(apiKey) # ""
             /\ ~quiz.isGeneratingQuestions
             /\ quiz'.isGeneratingQuestions
             /\ quiz'.outstanding = 1
     /\ quiz'.isGeneratingQuestions <=> quiz'.outstanding > 0
     /\ quiz'.outstanding < quiz.outstanding
          => /\ ~quiz'.isGeneratingQuestions
             /\ quiz'.outstanding = 0
     /\ (quiz'.outstanding < quiz.outstanding /\ quiz'.lastCall = "failed")
          => quiz'.generatedQuestions = quiz.generatedQuestions]_vars

\* a request has succeeded and the next one has failed: the questions of
\* the first are still there and the flag is false
C30_Witness ==
  /\ quiz.requests = 2
  /\ quiz.outstanding = 0
  /\ quiz.lastCall = "failed"
  /\ quiz.generatedQuestions = "questions1"
  /\ ~quiz.isGeneratingQuestions
====
